---- MODULE Spec2Model ----
\* Batch ingestion pipeline (components/ContractUpload.tsx) and the local
\* store it writes through (services/storageService.ts).
EXTENDS Integers, Sequences, FiniteSets, TLC

\* ---------------------------------------------------------------- bounds
\* File objects accepted over the life of the component.
MaxFiles == 3
\* Files handed to one validateAndAddFiles call.
MaxSubmit == 2
\* Range of the values generateId can return.
MaxIds == 2
\* Users owning Documents in the store.
MaxUsers == 2
\* Range of the upload timestamps.
MaxDates == 2
\* handleAsk calls on one ClauseCard.
MaxAsks == 3
\* Distinct entry ids written to the recent-analysis cache.
MaxEntries == 11
\* Cache calls other than a first write that goes through: repeated ids,
\* writes that setItem refuses, clears.
MaxIrregular == 2

\* ------------------------------------------------------------- constants
\* `contract?: Contract` absent on a FileUploadState.
NoContract == 0
\* filtered.slice(0, 10) in saveRecentAnalysis.
RecentLimit == 10
\* findIndex's -1, one below the first index (sequences are 1-based here).
NotFound == 0
\* getCurrentUser's null.
NoUser == 0

FileIds == 1..MaxFiles
Ids == 1..MaxIds

VARIABLES
    files,        \* useState<FileUploadState[]>: the item collection
    globalError,  \* useState<string | null>
    nextFile,     \* number of File objects accepted so far (fresh identities)
    disp,         \* processFile calls in flight, in dispatch order
    contracts,    \* localStorage[legallens_contracts], parsed
    recent,       \* localStorage[legallens_recent_analyses], parsed
    corrupt,      \* storage keys whose blob does not parse
    navs,         \* arguments of the onUploadComplete calls made so far
    raised,       \* some handleAnalyzeAll promise rejected
    calls,        \* analyzeContract invocations per File
    outcome,      \* per File: how its dispatch went (history)
    last,         \* the handleAnalyzeAll that finished last: what it saw and emitted (history)
    lastSubmit,   \* the file types handed to the validateAndAddFiles call under study (history)
    misshapen,    \* storage keys whose blob parses, but not to a table
    users,        \* localStorage[legallens_users], parsed
    currentUser,  \* localStorage[legallens_current_user], parsed
    ret,          \* what the storageService call under study returned (history)
    nextEntry,    \* identifiers handed out to new RecentAnalysis entries so far
    irregular,    \* cache calls so far that were not a successful insert of a new identifier
    clause,       \* ClauseCard: clause.conversationHistory of the clause prop
    asking,       \* ClauseCard: handleAsk calls waiting for askClauseQuestion
    question,     \* ClauseCard: useState('') of the input
    loadingAnswer, \* ClauseCard: useState(false)
    clock         \* Date.now() readings taken by handleAsk so far

\* The state of a ClauseCard.
askVars == <<clause, asking, question, loadingAnswer, clock>>

\* What the component's handlers never touch.
aux == <<lastSubmit, misshapen, users, currentUser, ret, nextEntry, irregular, askVars>>

vars == <<files, globalError, nextFile, disp, contracts, recent, corrupt,
          navs, raised, calls, outcome, last, aux>>

\* ------------------------------------------------------- FileUploadState
ErrorReason == "Failed to analyze"
NoError == ""
NoGlobalError == "null"
InvalidFormat == "invalid format"

\* Variant: a submitted file starts out processing.
NewItemProcessing(file) ==
    [file |-> file, status |-> "processing", error |-> NoError, contract |-> NoContract]

\* { file, status: 'pending' }
NewItem(file) ==
    [file |-> file, status |-> "pending", error |-> NoError, contract |-> NoContract]

\* Variant: the success result does not carry the contract.
SuccessResultNoContract(fileState, id) ==
    [fileState EXCEPT !.status = "success"]

\* { ...fileState, status: 'success', contract: newContract }
SuccessResult(fileState, id) ==
    [fileState EXCEPT !.status = "success", !.contract = id]

\* Variant: the error result carries no reason.
ErrorResultNoReason(fileState) ==
    [fileState EXCEPT !.status = "error"]

\* { ...fileState, status: 'error', error: 'Failed to analyze' }
ErrorResult(fileState) ==
    [fileState EXCEPT !.status = "error", !.error = ErrorReason]

StatusIn(fs, file) ==
    LET at == {i \in DOMAIN fs : fs[i].file = file}
    IN IF at = {} THEN "absent" ELSE fs[CHOOSE i \in at : TRUE].status

Terminal == {"success", "error"}

\* Variant: items in error are dispatched again.
PendingFilesRetry(fs) == SelectSeq(fs, LAMBDA f : f.status \in {"pending", "error"})

\* files.filter(f => f.status === 'pending')
PendingFiles(fs) == SelectSeq(fs, LAMBDA f : f.status = "pending")

\* Variant: only the first pending item is marked.
MarkProcessingFirstOnly(fs) ==
    [i \in DOMAIN fs |->
        IF fs[i].status = "pending" /\ (\A j \in 1..(i-1) : fs[j].status # "pending")
        THEN [fs[i] EXCEPT !.status = "processing"] ELSE fs[i]]

\* Variant: every item is marked, whatever its status.
MarkProcessingAll(fs) ==
    [i \in DOMAIN fs |-> [fs[i] EXCEPT !.status = "processing"]]

\* prev.map(f => f.status === 'pending' ? { ...f, status: 'processing' } : f)
MarkProcessing(fs) ==
    [i \in DOMAIN fs |->
        IF fs[i].status = "pending" THEN [fs[i] EXCEPT !.status = "processing"] ELSE fs[i]]

\* files.some(f => f.status === 'processing')
hasProcessing == \E i \in DOMAIN files : files[i].status = "processing"

\* files.length > 0 && files.every(f => f.status === 'success')
allSuccess == Len(files) > 0 /\ \A i \in DOMAIN files : files[i].status = "success"

\* next.findIndex(f => f.file === res.file)
FindIndex(fs, file) ==
    IF \E i \in DOMAIN fs : fs[i].file = file
    THEN CHOOSE i \in DOMAIN fs :
             fs[i].file = file /\ \A j \in 1..(i-1) : fs[j].file # file
    ELSE NotFound

\* Variant: one failed result marks the whole batch as failed.
MergeResultsFailTogether(next, results) ==
    LET failed == \E j \in DOMAIN results : results[j].status = "error"
    IN [i \in DOMAIN next |->
           IF \E j \in DOMAIN results : results[j].file = next[i].file
           THEN IF failed
                THEN [next[i] EXCEPT !.status = "error", !.error = ErrorReason]
                ELSE results[CHOOSE j \in DOMAIN results : results[j].file = next[i].file]
           ELSE next[i]]

\* Variant: the results become the collection.
MergeResultsReplaces(next, results) == results

\* results.forEach(res => { idx = findIndex(...); if (idx !== -1) next[idx] = res })
RECURSIVE MergeResults(_, _)
MergeResults(next, results) ==
    IF results = <<>> THEN next
    ELSE LET res == Head(results)
             idx == FindIndex(next, res.file)
         IN MergeResults(IF idx # NotFound THEN [next EXCEPT ![idx] = res] ELSE next,
                         Tail(results))

\* Variant: the size of the collection is not looked at.
NavigatesAnySize(len, results) ==
    results[1].status = "success" /\ results[1].contract # NoContract

\* files.length === 1 && results[0].status === 'success' && results[0].contract
Navigates(len, results) ==
    len = 1 /\ results[1].status = "success" /\ results[1].contract # NoContract

\* ------------------------------------------------------------ the store
\* Variant: the row is pushed without looking for its id.
SaveToStorageAlwaysPush(rows, c) == Append(rows, c)

\* allContracts.findIndex(c => c.id === contractToSave.id), then replace or push
SaveToStorage(rows, c) ==
    IF \E i \in DOMAIN rows : rows[i].id = c.id
    THEN LET index == CHOOSE i \in DOMAIN rows :
                          rows[i].id = c.id /\ \A j \in 1..(i-1) : rows[j].id # c.id
         IN [rows EXCEPT ![index] = c]
    ELSE Append(rows, c)

\* What JSON.parse makes of the blob under a key: a table written by this
\* code, a SyntaxError, or a value that is not a table (an object, a number).
Blob(key) ==
    IF key \in corrupt THEN "unparsable"
    ELSE IF key \in misshapen THEN "misshapen" ELSE "table"

\* What a read hands back: an array, undefined, null, one record, or the
\* parsed value as it is ("garbage"); threw says the read raised.
Returned(kind, rows) == [threw |-> FALSE, kind |-> kind, rows |-> rows]
Raised == [threw |-> TRUE, kind |-> "none", rows |-> <<>>]

\* storageService.getUsers
GetUsers ==
    IF Blob("users") = "table" THEN Returned("array", users)
    ELSE IF Blob("users") = "unparsable" THEN Returned("array", <<>>)
    ELSE Returned("garbage", <<>>)

\* storageService.getCurrentUser
GetCurrentUser ==
    IF Blob("current_user") = "table"
    THEN IF currentUser = NoUser THEN Returned("null", <<>>)
         ELSE Returned("user", <<[id |-> currentUser]>>)
    ELSE IF Blob("current_user") = "unparsable" THEN Returned("null", <<>>)
    ELSE Returned("garbage", <<>>)

\* .sort((a, b) => b.uploadDate - a.uploadDate), stable
RECURSIVE InsertByDate(_, _)
InsertByDate(sorted, c) ==
    IF sorted = <<>> THEN <<c>>
    ELSE IF Head(sorted).uploadDate >= c.uploadDate
         THEN <<Head(sorted)>> \o InsertByDate(Tail(sorted), c)
         ELSE <<c>> \o sorted

RECURSIVE SortByDate(_)
SortByDate(rows) ==
    IF rows = <<>> THEN <<>>
    ELSE InsertByDate(SortByDate(SubSeq(rows, 1, Len(rows) - 1)), rows[Len(rows)])

\* Variant: the matching rows are returned in table order.
GetContractsUnsorted(userId) ==
    IF Blob("contracts") = "table"
    THEN Returned("array", SelectSeq(contracts, LAMBDA c : c.userId = userId))
    ELSE Returned("array", <<>>)

\* storageService.getContracts(userId): a blob that is not a table makes
\* JSON.parse or .filter throw inside the try
GetContracts(userId) ==
    IF Blob("contracts") = "table"
    THEN Returned("array", SortByDate(SelectSeq(contracts, LAMBDA c : c.userId = userId)))
    ELSE Returned("array", <<>>)

\* Variant: the first row is returned whatever its id.
GetContractByIdFirstRow(id) ==
    IF Blob("contracts") = "table" /\ contracts # <<>>
    THEN Returned("doc", <<contracts[1]>>)
    ELSE Returned("undefined", <<>>)

\* storageService.getContractById(id)
GetContractById(id) ==
    IF Blob("contracts") = "table" /\ \E i \in DOMAIN contracts : contracts[i].id = id
    THEN Returned("doc", <<contracts[CHOOSE i \in DOMAIN contracts :
                               contracts[i].id = id /\ \A j \in 1..(i-1) : contracts[j].id # id]>>)
    ELSE Returned("undefined", <<>>)

\* storageService.getRecentAnalyses: stored ? JSON.parse(stored) : [], [] when
\* JSON.parse throws
GetRecentAnalyses ==
    IF Blob("recent") = "table" THEN Returned("array", recent)
    ELSE IF Blob("recent") = "unparsable" THEN Returned("array", <<>>)
    ELSE Returned("garbage", <<>>)

\* Variant: the entry is put in front without removing its older copy.
SaveRecentAnalysisKeepsOld(rows, analysis) ==
    LET unshifted == <<analysis>> \o rows
    IN SubSeq(unshifted, 1, IF Len(unshifted) < RecentLimit THEN Len(unshifted) ELSE RecentLimit)

\* Variant: the list is cut to the last entries instead of the first.
SaveRecentAnalysisKeepsTail(rows, analysis) ==
    LET filtered == SelectSeq(rows, LAMBDA item : item.id # analysis.id)
        unshifted == <<analysis>> \o filtered
    IN SubSeq(unshifted, IF Len(unshifted) < RecentLimit THEN 1
                         ELSE Len(unshifted) - RecentLimit + 1, Len(unshifted))

\* recent.filter(item => item.id !== analysis.id), unshift, slice(0, 10)
SaveRecentAnalysis(rows, analysis) ==
    LET filtered == SelectSeq(rows, LAMBDA item : item.id # analysis.id)
        unshifted == <<analysis>> \o filtered
    IN SubSeq(unshifted, 1, IF Len(unshifted) < RecentLimit THEN Len(unshifted) ELSE RecentLimit)

\* storageService.saveRecentAnalysis(analysis), r: setItem goes through. A
\* value that is not an array makes .filter throw, which the catch swallows.
RecentWritten(r) == r /\ GetRecentAnalyses.kind = "array"

WriteRecent(analysis, r) ==
    IF RecentWritten(r)
    THEN /\ recent' = SaveRecentAnalysis(GetRecentAnalyses.rows, analysis)
         /\ corrupt' = corrupt \ {"recent"}
    ELSE UNCHANGED <<recent, corrupt>>

\* What localStorage.setItem does to the two attempts of saveContract.
WriteOutcomes == {"full", "light", "quota"}

\* Variant: the caller gets the light copy back.
SaveContractReturnsLight(rows, blob, contract, w) ==
    LET lightContract == [contract EXCEPT !.fileData = FALSE] IN
    IF blob # "table"
    THEN [threw |-> TRUE, rows |-> rows, attempts |-> 1, returned |-> <<>>]
    ELSE IF w = "full"
    THEN [threw |-> FALSE, rows |-> SaveToStorage(rows, contract), attempts |-> 1,
          returned |-> <<contract>>]
    ELSE IF w = "light"
    THEN [threw |-> FALSE, rows |-> SaveToStorage(rows, lightContract), attempts |-> 2,
          returned |-> <<lightContract>>]
    ELSE [threw |-> TRUE, rows |-> rows, attempts |-> 2, returned |-> <<>>]

\* Variant: a failed light retry is tried once more and goes through.
SaveContractRetriesAgain(rows, blob, contract, w) ==
    LET lightContract == [contract EXCEPT !.fileData = FALSE] IN
    IF blob # "table"
    THEN [threw |-> TRUE, rows |-> rows, attempts |-> 1, returned |-> <<>>]
    ELSE IF w = "full"
    THEN [threw |-> FALSE, rows |-> SaveToStorage(rows, contract), attempts |-> 1,
          returned |-> <<contract>>]
    ELSE IF w = "light"
    THEN [threw |-> FALSE, rows |-> SaveToStorage(rows, lightContract), attempts |-> 2,
          returned |-> <<contract>>]
    ELSE [threw |-> FALSE, rows |-> SaveToStorage(rows, lightContract), attempts |-> 3,
          returned |-> <<contract>>]

\* Variant: a table that cannot be read is started over with the contract.
SaveContractStartsOver(rows, blob, contract, w) ==
    LET lightContract == [contract EXCEPT !.fileData = FALSE] IN
    IF blob # "table"
    THEN [threw |-> FALSE, rows |-> <<lightContract>>, attempts |-> 2,
          returned |-> <<contract>>]
    ELSE IF w = "full"
    THEN [threw |-> FALSE, rows |-> SaveToStorage(rows, contract), attempts |-> 1,
          returned |-> <<contract>>]
    ELSE IF w = "light"
    THEN [threw |-> FALSE, rows |-> SaveToStorage(rows, lightContract), attempts |-> 2,
          returned |-> <<contract>>]
    ELSE [threw |-> TRUE, rows |-> rows, attempts |-> 2, returned |-> <<>>]

\* storageService.saveContract(contract) after its delay: the table it
\* leaves, whether it threw, how many saveToStorage attempts it made and what
\* it returned. A blob that is not a table makes JSON.parse or .findIndex throw
\* an error that is not a quota error, which is rethrown without a retry.
SaveContract(rows, blob, contract, w) ==
    LET lightContract == [contract EXCEPT !.fileData = FALSE] IN
    IF blob # "table"
    THEN [threw |-> TRUE, rows |-> rows, attempts |-> 1, returned |-> <<>>]
    ELSE IF w = "full"
    THEN [threw |-> FALSE, rows |-> SaveToStorage(rows, contract), attempts |-> 1,
          returned |-> <<contract>>]
    ELSE IF w = "light"
    THEN [threw |-> FALSE, rows |-> SaveToStorage(rows, lightContract), attempts |-> 2,
          returned |-> <<contract>>]
    ELSE [threw |-> TRUE, rows |-> rows, attempts |-> 2, returned |-> <<>>]

\* No storageService call has been looked at yet.
NoCall == [op |-> "none", given |-> <<>>, w |-> "none",
           threw |-> FALSE, attempts |-> 0, returned |-> <<>>]

\* No handleAnalyzeAll has finished yet.
NoInvocation == [len |-> 0, results |-> <<>>, emitted |-> <<>>, threw |-> FALSE]

\* ----------------------------------------------------------------- Init
Init ==
    /\ files = <<>>
    /\ globalError = NoGlobalError
    /\ nextFile = 0
    /\ disp = <<>>
    /\ contracts = <<>>
    /\ recent = <<>>
    /\ corrupt = {}
    /\ navs = <<>>
    /\ raised = FALSE
    /\ calls = [f \in FileIds |-> 0]
    /\ outcome = [f \in FileIds |-> "none"]
    /\ last = NoInvocation
    /\ lastSubmit = <<>>
    /\ misshapen = {}
    /\ users = <<>>
    /\ currentUser = NoUser
    /\ ret = NoCall
    /\ nextEntry = 0
    /\ irregular = 0
    /\ clause = <<>>
    /\ asking = <<>>
    /\ question = ""
    /\ loadingAnswer = FALSE
    /\ clock = 0

\* -------------------------------------------------------------- actions
\* const validTypes = [...]
ValidTypes == {"application/pdf", "image/jpeg", "image/png", "image/webp"}
\* file.type of the files handed in
MediaTypes == ValidTypes \cup {"text/plain"}

\* Variant: the first rejected file ends the loop.
RECURSIVE AcceptedUntilInvalid(_, _)
AcceptedUntilInvalid(types, n) ==
    IF types = <<>> \/ Head(types) \notin ValidTypes THEN <<>>
    ELSE <<NewItem(n + 1)>> \o AcceptedUntilInvalid(Tail(types), n + 1)

\* validateAndAddFiles(fileList), types[i] = fileList[i].type: the newFiles it
\* builds; the n-th File object accepted by the component has identity n.
RECURSIVE Accepted(_, _)
Accepted(types, n) ==
    IF types = <<>> THEN <<>>
    ELSE IF Head(types) \in ValidTypes
         THEN <<NewItem(n + 1)>> \o Accepted(Tail(types), n + 1)
         ELSE Accepted(Tail(types), n)

ValidateAndAddFiles(types) ==
    LET newFiles == Accepted(types, nextFile) IN
    /\ nextFile + Len(newFiles) <= MaxFiles
    /\ nextFile' = nextFile + Len(newFiles)
    /\ files' = IF Len(newFiles) > 0 THEN files \o newFiles ELSE files
    /\ globalError' = IF Len(newFiles) > 0 THEN NoGlobalError
                      ELSE IF \E i \in DOMAIN types : types[i] \notin ValidTypes THEN InvalidFormat
                      ELSE globalError

Submit(types) ==
    /\ ValidateAndAddFiles(types)
    /\ UNCHANGED <<disp, contracts, recent, corrupt, navs, raised, calls, outcome, last, aux>>

\* Variant: the remove button is shown on every item.
RemoveAnyStatus(index) ==
    /\ index \in DOMAIN files
    /\ files' = [i \in 1..(Len(files) - 1) |-> IF i < index THEN files[i] ELSE files[i + 1]]
    /\ UNCHANGED <<globalError, nextFile, disp, contracts, recent, corrupt,
                   navs, raised, calls, outcome, last>>
    /\ UNCHANGED aux

\* handleRemoveFile(index), offered for pending items only
Remove(index) ==
    /\ index \in DOMAIN files
    /\ files[index].status = "pending"
    /\ files' = [i \in 1..(Len(files) - 1) |-> IF i < index THEN files[i] ELSE files[i + 1]]
    /\ UNCHANGED <<globalError, nextFile, disp, contracts, recent, corrupt,
                   navs, raised, calls, outcome, last>>
    /\ UNCHANGED aux

\* Variant: Clear All is not disabled while an item is processing.
ClearAllWhileProcessing ==
    /\ \E i \in DOMAIN files : files[i].status = "pending"
    /\ files' = <<>>
    /\ UNCHANGED <<globalError, nextFile, disp, contracts, recent, corrupt,
                   navs, raised, calls, outcome, last>>
    /\ UNCHANGED aux

\* Clear All: shown when some item is pending, disabled while one is processing
ClearAll ==
    /\ \E i \in DOMAIN files : files[i].status = "pending"
    /\ ~hasProcessing
    /\ files' = <<>>
    /\ UNCHANGED <<globalError, nextFile, disp, contracts, recent, corrupt,
                   navs, raised, calls, outcome, last>>
    /\ UNCHANGED aux

\* An invocation number no dispatch in flight carries.
FreshInv == CHOOSE n \in 1..(Len(disp) + 1) : \A k \in DOMAIN disp : disp[k].inv # n

\* The button that runs handleAnalyzeAll is rendered when files.length > 0 and
\* not allSuccess, and is disabled while hasProcessing or every item is success.
AnalyzeEnabled ==
    /\ Len(files) > 0
    /\ ~allSuccess
    /\ ~hasProcessing

\* handleAnalyzeAll up to its await; with nothing pending Promise.all([])
\* resolves at once and the rest of the handler runs in the same turn.
AnalyzeAll ==
    LET pendingFiles == PendingFiles(files)
        inv == FreshInv
    IN
    /\ AnalyzeEnabled
    /\ IF pendingFiles = <<>>
       THEN /\ files' = MergeResults(MarkProcessing(files), <<>>)
            /\ raised' = (raised \/ Len(files) = 1)
            /\ last' = [len |-> Len(files), results |-> <<>>, emitted |-> <<>>,
                         threw |-> (Len(files) = 1)]
            /\ UNCHANGED disp
       ELSE /\ files' = MarkProcessing(files)
            /\ disp' = disp \o [k \in DOMAIN pendingFiles |->
                                  [inv |-> inv, len |-> Len(files),
                                   fileState |-> pendingFiles[k], pc |-> "converting",
                                   newContract |-> NoContract]]
            /\ UNCHANGED <<raised, last>>
    /\ UNCHANGED <<globalError, nextFile, contracts, recent, corrupt, navs, calls, outcome>>
    /\ UNCHANGED aux

\* Variant: every result is merged into the collection when it arrives.
SettleMergesEach(k, result) ==
    LET settled == [disp EXCEPT ![k].pc = "settled", ![k].fileState = result,
                                ![k].newContract = NoContract]
        inv == disp[k].inv
        mine == SelectSeq(settled, LAMBDA d : d.inv = inv)
        results == [j \in DOMAIN mine |-> mine[j].fileState]
        nav == Navigates(disp[k].len, results)
    IN
    IF \A j \in DOMAIN mine : mine[j].pc = "settled"
    THEN /\ disp' = SelectSeq(settled, LAMBDA d : d.inv # inv)
         /\ files' = MergeResults(files, results)
         /\ navs' = IF nav THEN Append(navs, results[1].contract) ELSE navs
         /\ last' = [len |-> disp[k].len, results |-> results,
                      emitted |-> IF nav THEN <<results[1].contract>> ELSE <<>>,
                      threw |-> FALSE]
    ELSE /\ disp' = settled
         /\ files' = MergeResults(files, <<result>>)
         /\ UNCHANGED <<navs, last>>

\* processFile returns `result`; when it was the last dispatch of its
\* Promise.all, handleAnalyzeAll resumes: merge, then the navigation logic.
Settle(k, result) ==
    LET settled == [disp EXCEPT ![k].pc = "settled", ![k].fileState = result,
                                ![k].newContract = NoContract]
        inv == disp[k].inv
        mine == SelectSeq(settled, LAMBDA d : d.inv = inv)
        results == [j \in DOMAIN mine |-> mine[j].fileState]
        nav == Navigates(disp[k].len, results)
    IN
    IF \A j \in DOMAIN mine : mine[j].pc = "settled"
    THEN /\ disp' = SelectSeq(settled, LAMBDA d : d.inv # inv)
         /\ files' = MergeResults(files, results)
         /\ navs' = IF nav THEN Append(navs, results[1].contract) ELSE navs
         /\ last' = [len |-> disp[k].len, results |-> results,
                      emitted |-> IF nav THEN <<results[1].contract>> ELSE <<>>,
                      threw |-> FALSE]
    ELSE /\ disp' = settled
         /\ UNCHANGED <<files, navs, last>>

At(k, pc) == k \in DOMAIN disp /\ disp[k].pc = pc

\* reader.onload: base64Promise resolves and analyzeContract is called
ConvertOk(k) ==
    /\ At(k, "converting")
    /\ disp' = [disp EXCEPT ![k].pc = "analyzing"]
    /\ calls' = [calls EXCEPT ![disp[k].fileState.file] = @ + 1]
    /\ UNCHANGED <<files, globalError, nextFile, contracts, recent, corrupt,
                   navs, raised, outcome, last>>
    /\ UNCHANGED aux

\* reader.onerror: base64Promise rejects
ConvertFail(k) ==
    /\ At(k, "converting")
    /\ Settle(k, ErrorResult(disp[k].fileState))
    /\ outcome' = [outcome EXCEPT ![disp[k].fileState.file] = "convert"]
    /\ UNCHANGED <<globalError, nextFile, contracts, recent, corrupt, raised, calls>>
    /\ UNCHANGED aux

\* analyzeContract resolves; newContract gets id = generateId(); saveContract
\* is called and waits in delay(300)
AnalyzeOk(k, id) ==
    /\ At(k, "analyzing")
    /\ disp' = [disp EXCEPT ![k].pc = "saving", ![k].newContract = id]
    /\ UNCHANGED <<files, globalError, nextFile, contracts, recent, corrupt,
                   navs, raised, calls, outcome, last>>
    /\ UNCHANGED aux

\* analyzeContract rejects
AnalyzeFail(k) ==
    /\ At(k, "analyzing")
    /\ Settle(k, ErrorResult(disp[k].fileState))
    /\ outcome' = [outcome EXCEPT ![disp[k].fileState.file] = "analyze"]
    /\ UNCHANGED <<globalError, nextFile, contracts, recent, corrupt, raised, calls>>
    /\ UNCHANGED aux

\* analyzeContract never settles
AnalyzeStall(k) ==
    /\ At(k, "analyzing")
    /\ disp' = [disp EXCEPT ![k].pc = "stalled"]
    /\ outcome' = [outcome EXCEPT ![disp[k].fileState.file] = "stall"]
    /\ UNCHANGED <<files, globalError, nextFile, contracts, recent, corrupt,
                   navs, raised, calls, last>>
    /\ UNCHANGED aux

\* Variant: the cache entry is written before the outcome of saveContract is
\* looked at.
SaveAndCacheCachesAnyway(k, w, r) ==
    LET fileState == disp[k].fileState
        id == disp[k].newContract
        save == SaveContract(contracts, Blob("contracts"), [id |-> id, fileData |-> TRUE], w)
    IN
    /\ At(k, "saving")
    /\ contracts' = save.rows
    /\ WriteRecent([id |-> id, name |-> fileState.file], r)
    /\ IF ~save.threw
       THEN /\ Settle(k, SuccessResult(fileState, id))
            /\ outcome' = [outcome EXCEPT ![fileState.file] = IF r THEN "ok" ELSE "cache"]
       ELSE /\ Settle(k, ErrorResult(fileState))
            /\ outcome' = [outcome EXCEPT ![fileState.file] = "save"]
    /\ UNCHANGED <<globalError, nextFile, raised, calls>>
    /\ UNCHANGED aux

\* saveContract after its delay, then saveRecentAnalysis and the return.
\* w: what setItem lets through (full write, light retry only, neither);
\* r: whether the cache's setItem goes through.
SaveAndCache(k, w, r) ==
    LET fileState == disp[k].fileState
        id == disp[k].newContract
        save == SaveContract(contracts, Blob("contracts"), [id |-> id, fileData |-> TRUE], w)
    IN
    /\ At(k, "saving")
    /\ contracts' = save.rows
    /\ IF ~save.threw
       THEN /\ WriteRecent([id |-> id, name |-> fileState.file], r)
            /\ Settle(k, SuccessResult(fileState, id))
            /\ outcome' = [outcome EXCEPT ![fileState.file] = IF r THEN "ok" ELSE "cache"]
       ELSE /\ Settle(k, ErrorResult(fileState))
            /\ outcome' = [outcome EXCEPT ![fileState.file] = "save"]
            /\ UNCHANGED <<recent, corrupt>>
    /\ UNCHANGED <<globalError, nextFile, raised, calls>>
    /\ UNCHANGED aux

\* The blob under a storage key stops being parsable (edited outside the app).
Corrupt(key) ==
    /\ key \notin corrupt
    /\ corrupt' = corrupt \cup {key}
    /\ contracts' = IF key = "contracts" THEN <<>> ELSE contracts
    /\ recent' = IF key = "recent" THEN <<>> ELSE recent
    /\ UNCHANGED <<files, globalError, nextFile, disp, navs, raised, calls, outcome, last>>
    /\ UNCHANGED aux

SubmitTypes == UNION {[1..n -> MediaTypes] : n \in 1..MaxSubmit}

DoSubmit == \E types \in SubmitTypes : Submit(types)
DoRemove == \E index \in 1..MaxFiles : Remove(index)
DoConvertOk == \E k \in 1..MaxFiles : ConvertOk(k)
DoConvertFail == \E k \in 1..MaxFiles : ConvertFail(k)
DoAnalyzeOk == \E k \in 1..MaxFiles : \E id \in Ids : AnalyzeOk(k, id)
DoAnalyzeFail == \E k \in 1..MaxFiles : AnalyzeFail(k)
DoAnalyzeStall == \E k \in 1..MaxFiles : AnalyzeStall(k)
DoSaveAndCache == \E k \in 1..MaxFiles : \E w \in WriteOutcomes : \E r \in BOOLEAN : SaveAndCache(k, w, r)
DoCorrupt == \E key \in {"contracts"} : Corrupt(key)

Next ==
    \/ DoSubmit
    \/ DoRemove
    \/ ClearAll
    \/ AnalyzeAll
    \/ DoConvertOk
    \/ DoConvertFail
    \/ DoAnalyzeOk
    \/ DoAnalyzeFail
    \/ DoAnalyzeStall
    \/ DoSaveAndCache
    \/ DoCorrupt

Spec == Init /\ [][Next]_vars

\* Every dispatch that can still settle does; a stalled analysis call never does.
DispatchProgress ==
    DoConvertOk \/ DoConvertFail \/ DoAnalyzeOk \/ DoAnalyzeFail \/ DoSaveAndCache

FairSpec == Spec /\ WF_vars(DispatchProgress)

\* ------------------------------------------------- the documents table
\* storageService on its own: saveContract calls with any Document, and the
\* blob under legallens_contracts replaced from outside the application.
UserIds == 1..MaxUsers
Min(a, b) == IF a < b THEN a ELSE b
Dates == 1..MaxDates
\* Contract: id, userId, uploadDate, fileData present or not (the fields the
\* store looks at; the others travel with the record unchanged).
Contracts == [id : Ids, userId : UserIds, uploadDate : Dates, fileData : BOOLEAN]

CallSaveContract(contract, w) ==
    LET save == SaveContract(contracts, Blob("contracts"), contract, w) IN
    /\ contracts' = save.rows
    /\ ret' = [op |-> "saveContract", given |-> <<contract>>, w |-> w,
               threw |-> save.threw, attempts |-> save.attempts, returned |-> save.returned]
    /\ UNCHANGED <<files, globalError, nextFile, disp, recent, corrupt, navs, raised,
                   calls, outcome, last, lastSubmit, misshapen, users, currentUser,
                   nextEntry, irregular, askVars>>

\* The blob under a key is replaced by text that does not parse, or that
\* parses to something that is not a table.
Tamper(key, kind) ==
    /\ Blob(key) = "table"
    /\ corrupt' = IF kind = "unparsable" THEN corrupt \cup {key} ELSE corrupt
    /\ misshapen' = IF kind = "misshapen" THEN misshapen \cup {key} ELSE misshapen
    /\ contracts' = IF key = "contracts" THEN <<>> ELSE contracts
    /\ recent' = IF key = "recent" THEN <<>> ELSE recent
    /\ users' = IF key = "users" THEN <<>> ELSE users
    /\ currentUser' = IF key = "current_user" THEN NoUser ELSE currentUser
    /\ UNCHANGED <<files, globalError, nextFile, disp, navs, raised, calls, outcome, last,
                   lastSubmit, ret, nextEntry, irregular, askVars>>

TamperKinds == {"unparsable", "misshapen"}

DoCallSaveContract == \E contract \in Contracts : \E w \in WriteOutcomes : CallSaveContract(contract, w)
DoTamperContracts == \E kind \in TamperKinds : Tamper("contracts", kind)

StoreNext ==
    \/ DoCallSaveContract
    \/ DoTamperContracts

StoreSpec == Init /\ [][StoreNext]_vars

\* --------------------------------------------- the recent-analysis cache
\* storageService on its own: saveRecentAnalysis and clearRecentAnalyses in
\* any order. New ids are handed out in order of first write; versions tell
\* the content of a first write (0) from the content of a later one (1).
RecentAnalysis(id, version) == [id |-> id, name |-> version]

CallSaveRecentAnalysis(analysis, r) ==
    /\ WriteRecent(analysis, r)
    /\ ret' = [op |-> "saveRecentAnalysis", given |-> <<analysis>>,
               w |-> IF r THEN "full" ELSE "quota",
               threw |-> FALSE, attempts |-> 1, returned |-> <<>>]
    /\ UNCHANGED <<files, globalError, nextFile, disp, contracts, navs, raised, calls,
                   outcome, last, lastSubmit, misshapen, users, currentUser, askVars>>

\* First write of the next id, setItem goes through.
SaveNew ==
    /\ nextEntry < MaxEntries
    /\ CallSaveRecentAnalysis(RecentAnalysis(nextEntry + 1, 0), TRUE)
    /\ nextEntry' = nextEntry + 1
    /\ UNCHANGED irregular

\* First write of the next id, refused by setItem: the catch swallows it.
SaveNewRefused ==
    /\ nextEntry < MaxEntries
    /\ irregular < MaxIrregular
    /\ CallSaveRecentAnalysis(RecentAnalysis(nextEntry + 1, 0), FALSE)
    /\ nextEntry' = nextEntry + 1
    /\ irregular' = irregular + 1

\* An id written before is written again with new content.
SaveAgain(id, r) ==
    /\ id \in 1..nextEntry
    /\ irregular < MaxIrregular
    /\ CallSaveRecentAnalysis(RecentAnalysis(id, 1), r)
    /\ irregular' = irregular + 1
    /\ UNCHANGED nextEntry

\* Variant: localStorage.clear() instead of removeItem for the one key.
ClearEverything ==
    /\ irregular < MaxIrregular
    /\ recent' = <<>>
    /\ contracts' = <<>>
    /\ users' = <<>>
    /\ currentUser' = NoUser
    /\ corrupt' = {}
    /\ misshapen' = {}
    /\ ret' = [NoCall EXCEPT !.op = "clearRecentAnalyses"]
    /\ irregular' = irregular + 1
    /\ UNCHANGED <<files, globalError, nextFile, disp, navs, raised, calls,
                   outcome, last, lastSubmit, nextEntry, askVars>>

\* storageService.clearRecentAnalyses
ClearRecentAnalyses ==
    /\ irregular < MaxIrregular
    /\ recent' = <<>>
    /\ corrupt' = corrupt \ {"recent"}
    /\ misshapen' = misshapen \ {"recent"}
    /\ ret' = [NoCall EXCEPT !.op = "clearRecentAnalyses"]
    /\ irregular' = irregular + 1
    /\ UNCHANGED <<files, globalError, nextFile, disp, contracts, navs, raised, calls,
                   outcome, last, lastSubmit, users, currentUser, nextEntry, askVars>>

DoSaveAgain == \E id \in 1..MaxEntries : \E r \in BOOLEAN : SaveAgain(id, r)

CacheNext ==
    \/ SaveNew
    \/ SaveNewRefused
    \/ DoSaveAgain
    \/ ClearRecentAnalyses

CacheSpec == Init /\ [][CacheNext]_vars

\* ------------------------------------------------------ the four tables
\* Every table written by its own operation, every blob replaced from
\* outside, and every read of storageService called on what is there.
User(id) == [id |-> id]
Users == {User(id) : id \in UserIds}

\* users[existingIndex] = {...users[existingIndex], ...user}, or push
UpsertUser(rows, user) ==
    IF \E i \in DOMAIN rows : rows[i].id = user.id
    THEN [i \in DOMAIN rows |-> IF rows[i].id = user.id THEN user ELSE rows[i]]
    ELSE Append(rows, user)

\* storageService.saveUser: whatever getUsers or findIndex throws is swallowed.
SaveUser(user) ==
    /\ IF GetUsers.kind = "array"
       THEN /\ users' = UpsertUser(GetUsers.rows, user)
            /\ corrupt' = corrupt \ {"users"}
       ELSE UNCHANGED <<users, corrupt>>
    /\ ret' = [NoCall EXCEPT !.op = "saveUser", !.given = <<user>>]
    /\ UNCHANGED <<files, globalError, nextFile, disp, contracts, recent, navs, raised,
                   calls, outcome, last, lastSubmit, misshapen, currentUser, nextEntry,
                   irregular, askVars>>

\* storageService.setCurrentUser: setItem for a user (kept by its id),
\* removeItem for null
SetCurrentUser(user) ==
    /\ currentUser' = user
    /\ corrupt' = corrupt \ {"current_user"}
    /\ misshapen' = misshapen \ {"current_user"}
    /\ ret' = [NoCall EXCEPT !.op = "setCurrentUser"]
    /\ UNCHANGED <<files, globalError, nextFile, disp, contracts, recent, navs, raised,
                   calls, outcome, last, lastSubmit, users, nextEntry, irregular, askVars>>

ReadOps == {"getUsers", "getCurrentUser", "getContracts", "getContractById",
            "getRecentAnalyses"}

\* The localStorage key a read parses.
KeyOf(op) ==
    CASE op = "getUsers" -> "users"
      [] op = "getCurrentUser" -> "current_user"
      [] op = "getRecentAnalyses" -> "recent"
      [] OTHER -> "contracts"

\* The arguments a read is called with (0: none).
ArgsOf(op) ==
    CASE op = "getContracts" -> UserIds
      [] op = "getContractById" -> Ids
      [] OTHER -> {0}

Read(op, arg) ==
    CASE op = "getUsers" -> GetUsers
      [] op = "getCurrentUser" -> GetCurrentUser
      [] op = "getContracts" -> GetContracts(arg)
      [] op = "getContractById" -> GetContractById(arg)
      [] OTHER -> GetRecentAnalyses

CallRead(op, arg) ==
    /\ ret' = [NoCall EXCEPT !.op = op, !.given = <<arg>>, !.threw = Read(op, arg).threw,
                             !.returned = <<Read(op, arg)>>]
    /\ UNCHANGED <<files, globalError, nextFile, disp, contracts, recent, corrupt, navs,
                   raised, calls, outcome, last, lastSubmit, misshapen, users,
                   currentUser, nextEntry, irregular, askVars>>

\* Documents a user uploads one after the other.
Uploads == {c \in Contracts : c.fileData /\ c.uploadDate = Min(c.id, MaxDates)}
StorageKeys == {"users", "contracts", "current_user", "recent"}

DoSaveUser == \E user \in Users : SaveUser(user)
DoSetCurrentUser == \E user \in UserIds \cup {NoUser} : SetCurrentUser(user)
DoSaveUpload == \E contract \in Uploads : CallSaveContract(contract, "full")
DoSaveFirstEntry ==
    /\ CallSaveRecentAnalysis(RecentAnalysis(1, 0), TRUE)
    /\ UNCHANGED <<nextEntry, irregular>>
DoTamper == \E key \in StorageKeys : \E kind \in TamperKinds : Tamper(key, kind)
DoCallRead == \E op \in ReadOps : \E arg \in ArgsOf(op) : CallRead(op, arg)

ReadNext ==
    \/ DoSaveUser
    \/ DoSetCurrentUser
    \/ DoSaveUpload
    \/ DoSaveFirstEntry
    \/ DoTamper
    \/ DoCallRead

ReadSpec == Init /\ [][ReadNext]_vars

\* --------------------------------------- the documents table, looked up
\* saveContract calls with any Document, the blob replaced from outside, and
\* getContracts and getContractById called on what is there.
DoReadContracts ==
    \E op \in {"getContracts", "getContractById"} : \E arg \in ArgsOf(op) : CallRead(op, arg)

LookupNext ==
    \/ DoCallSaveContract
    \/ DoTamperContracts
    \/ DoReadContracts

LookupSpec == Init /\ [][LookupNext]_vars

\* ------------------------------------------------------------ ClauseCard
\* One ClauseCard with its onUpdate prop set: the input, the Ask button, the
\* Enter key, and askClauseQuestion answering the calls in any order.
QuestionTexts == {"what?", "why?"}
\* Texts for which question.trim() is empty.
BlankTexts == {"", " "}
\* What askClauseQuestion resolves with: the model's text or one of its
\* fallback strings; it catches its own errors.
Answers == {"answer", "Sorry, I couldn't answer that right now."}

\* { question: currentQuestion, answer: result, timestamp: Date.now() }
NewHistoryItem(currentQuestion, result, now) ==
    [question |-> currentQuestion, answer |-> result, timestamp |-> now]

\* { ...clause, conversationHistory: [...(clause.conversationHistory || []), newHistoryItem] }
\* with the clause of the render handleAsk was created in
UpdatedClause(seen, newHistoryItem) == Append(seen, newHistoryItem)

\* The owner of the card keeps the clause onUpdate hands it and passes it
\* back as the clause prop.
OnUpdate(updatedClause) == updatedClause

\* onChange of the input
TypeQuestion(text) ==
    /\ question' = text
    /\ UNCHANGED <<clause, asking, loadingAnswer, clock>>

\* handleAsk up to its await
HandleAsk ==
    /\ question \notin BlankTexts
    /\ clock + Len(asking) < MaxAsks
    /\ loadingAnswer' = TRUE
    /\ asking' = Append(asking, [currentQuestion |-> question, clause |-> clause])
    /\ UNCHANGED <<clause, question, clock>>

\* onClick of the button, disabled={loadingAnswer || !question.trim()}
AskByButton ==
    /\ ~loadingAnswer
    /\ HandleAsk
    /\ UNCHANGED <<files, globalError, nextFile, disp, contracts, recent, corrupt, navs,
                   raised, calls, outcome, last, lastSubmit, misshapen, users,
                   currentUser, ret, nextEntry, irregular>>

\* onKeyDown: e.key === 'Enter' && handleAsk()
AskByEnter ==
    /\ HandleAsk
    /\ UNCHANGED <<files, globalError, nextFile, disp, contracts, recent, corrupt, navs,
                   raised, calls, outcome, last, lastSubmit, misshapen, users,
                   currentUser, ret, nextEntry, irregular>>

\* askClauseQuestion resolves for the k-th waiting call: the rest of handleAsk
Answered(k, result) ==
    /\ k \in DOMAIN asking
    /\ loadingAnswer' = FALSE
    /\ question' = ""
    /\ clock' = clock + 1
    /\ clause' = OnUpdate(UpdatedClause(asking[k].clause,
                              NewHistoryItem(asking[k].currentQuestion, result, clock + 1)))
    /\ asking' = [i \in 1..(Len(asking) - 1) |-> IF i < k THEN asking[i] ELSE asking[i + 1]]
    /\ UNCHANGED <<files, globalError, nextFile, disp, contracts, recent, corrupt, navs,
                   raised, calls, outcome, last, lastSubmit, misshapen, users,
                   currentUser, ret, nextEntry, irregular>>

DoTypeQuestion ==
    /\ \E text \in QuestionTexts \cup BlankTexts : TypeQuestion(text)
    /\ UNCHANGED <<files, globalError, nextFile, disp, contracts, recent, corrupt, navs,
                   raised, calls, outcome, last, lastSubmit, misshapen, users,
                   currentUser, ret, nextEntry, irregular>>
DoAnswered == \E k \in 1..MaxAsks : \E result \in Answers : Answered(k, result)

AskNext ==
    \/ DoTypeQuestion
    \/ AskByButton
    \/ AskByEnter
    \/ DoAnswered

AskSpec == Init /\ [][AskNext]_vars

\* ------------------------------------- documents table and cache together
\* saveContract, saveRecentAnalysis and clearRecentAnalyses in any order, and
\* the blob of the cache replaced from outside.
DoTamperRecent == \E kind \in TamperKinds : Tamper("recent", kind)

FrameNext ==
    \/ DoSaveUpload
    \/ DoSaveFirstEntry
    \/ ClearRecentAnalyses
    \/ DoTamperRecent

FrameSpec == Init /\ [][FrameNext]_vars

\* ------------------------------------------- validateAndAddFiles, logged
\* The component with every validateAndAddFiles call's input kept in
\* lastSubmit; the analysis client and the store answer without failing and
\* generateId returns one value, FileReader may fail.
LoggedSubmit(types) ==
    /\ ValidateAndAddFiles(types)
    /\ lastSubmit' = types
    /\ UNCHANGED <<disp, contracts, recent, corrupt, navs, raised, calls, outcome, last,
                   misshapen, users, currentUser, ret, nextEntry, irregular, askVars>>

DoLoggedSubmit == \E types \in SubmitTypes : LoggedSubmit(types)
DoAnalyzeOkFirstId == \E k \in 1..MaxFiles : AnalyzeOk(k, 1)
DoSaveAndCacheFull == \E k \in 1..MaxFiles : SaveAndCache(k, "full", TRUE)

SubmitNext ==
    \/ DoLoggedSubmit
    \/ DoRemove
    \/ ClearAll
    \/ AnalyzeAll
    \/ DoConvertOk
    \/ DoConvertFail
    \/ DoAnalyzeOkFirstId
    \/ DoSaveAndCacheFull

SubmitSpec == Init /\ [][SubmitNext]_vars

\* ------------------------------------- one File object handed in twice
\* validateAndAddFiles takes whatever File objects the event carries and wraps
\* each in a new item, without copying it or looking it up in the collection:
\* here the list holds one File object the component was handed before. The
\* item counts against MaxFiles like any accepted item.
ValidateAndAddSameFile(file) ==
    /\ file \in 1..nextFile
    /\ nextFile + 1 <= MaxFiles
    /\ nextFile' = nextFile + 1
    /\ files' = files \o <<NewItem(file)>>
    /\ globalError' = NoGlobalError

SubmitSame(file) ==
    /\ ValidateAndAddSameFile(file)
    /\ UNCHANGED <<disp, contracts, recent, corrupt, navs, raised, calls, outcome, last, aux>>

DoSubmitSame == \E file \in FileIds : SubmitSame(file)

\* Every dispatch settles: no stalled analysis call, the store is left alone.
SameFileNext ==
    \/ DoSubmit
    \/ DoSubmitSame
    \/ DoRemove
    \/ ClearAll
    \/ AnalyzeAll
    \/ DoConvertOk
    \/ DoConvertFail
    \/ DoAnalyzeOkFirstId
    \/ DoAnalyzeFail
    \/ DoSaveAndCacheFull

SameFileSpec == Init /\ [][SameFileNext]_vars /\ WF_vars(DispatchProgress)

\* =============================================================== claims
ItemOf(file) == files[FindIndex(files, file)]
Present(file) == FindIndex(files, file) # NotFound
\* The dispatch of the file got through conversion, analysis and the Document write.
OwnStepsOk(file) == outcome[file] \in {"ok", "cache"}

\* C1: an item's status only moves pending -> processing -> success/error; it
\* enters the collection as pending, never skips processing, never moves back,
\* and a Submit step never makes an item processing.
MoveOk(s, t) ==
    \/ s = t
    \/ t = "absent"
    \/ <<s, t>> \in {<<"absent", "pending">>, <<"pending", "processing">>,
                     <<"processing", "success">>, <<"processing", "error">>}

C1_StatusMoves ==
    [][/\ files' # files => \A f \in FileIds : MoveOk(StatusIn(files, f), StatusIn(files', f))
       /\ (\E f \in FileIds : StatusIn(files', f) = "processing"
                                 /\ StatusIn(files, f) # "processing") => ~DoSubmit]_vars

C1_Witness ==
    /\ \E i \in DOMAIN files : files[i].status = "success"
    /\ \E i \in DOMAIN files : files[i].status = "error"
    /\ \E i \in DOMAIN files : files[i].status = "pending"

\* C2: in a finished batch every item's terminal status is the one its own
\* dispatch produced, whatever happened to the other items of the batch: an
\* item whose steps went through is success with a Document next to a sibling
\* that failed, which is error with a non-empty reason.
C2_Isolation ==
    \A i, j \in DOMAIN last.results :
        LET a == last.results[i]
            b == last.results[j]
        IN i # j =>
            /\ (a.status = "success") = OwnStepsOk(a.file)
            /\ Present(a.file) => ItemOf(a.file) = a
            /\ (OwnStepsOk(a.file) /\ ~OwnStepsOk(b.file)) =>
                   /\ a.status = "success" /\ a.contract # NoContract
                   /\ b.status = "error" /\ b.error # NoError

C2_Witness ==
    /\ Len(last.results) = 2
    /\ last.results[1].status = "success"
    /\ last.results[2].status = "error"
    /\ outcome[last.results[2].file] = "analyze"
    /\ Present(last.results[1].file) /\ Present(last.results[2].file)

\* C3: when a dispatch of a batch stalls forever, every sibling whose own
\* dispatch has settled is eventually shown with its terminal status.
SettledBesideStall(f) ==
    \E k, j \in DOMAIN disp :
        /\ disp[k].fileState.file = f /\ disp[k].pc = "settled"
        /\ disp[j].inv = disp[k].inv /\ disp[j].pc = "stalled"

C3_StallDelaysOnlyItself ==
    \A f \in FileIds : SettledBesideStall(f) ~> (StatusIn(files, f) \in Terminal)

C5_MarkedBeforeSettle ==
    \A k \in DOMAIN disp : StatusIn(files, disp[k].fileState.file) = "processing"

C5_Witness ==
    /\ Len(disp) >= 2
    /\ \A k \in DOMAIN disp : disp[k].pc = "converting"

\* C6: a batch of exactly one item that ends success emits the navigation
\* signal exactly once with that item's Document, whatever else the
\* collection holds.
C6_SingleBatchNavigates ==
    (Len(last.results) = 1 /\ last.results[1].status = "success") =>
        last.emitted = <<last.results[1].contract>>

\* C7: a batch of two or more items never emits the navigation signal.
C7_LargeBatchNeverNavigates ==
    Len(last.results) >= 2 => last.emitted = <<>>

C7_Witness ==
    /\ Len(last.results) >= 2
    /\ \A j \in DOMAIN last.results : last.results[j].status = "success"
    /\ Len(files) > Len(last.results)
    /\ navs = <<>>

\* C8: AnalyzeAll with no pending item dispatches nothing, leaves the
\* collection as it is, emits no signal and does not raise.
C8_NoPendingIsNoop ==
    [][(AnalyzeAll /\ PendingFiles(files) = <<>>) =>
           (files' = files /\ disp' = disp /\ navs' = navs /\ ~raised')]_vars

\* C9: an item has at most one analysis call in flight and the analysis
\* client is called at most once for it; an item in error is not dispatched again.
C9_OneCallPerItem ==
    \A f \in FileIds :
        /\ calls[f] <= 1
        /\ Cardinality({k \in DOMAIN disp : disp[k].fileState.file = f}) <= 1

C9_Witness ==
    /\ last.results # <<>>
    /\ \E i \in DOMAIN files :
           /\ files[i].status = "error"
           /\ calls[files[i].file] = 1
           /\ \A j \in DOMAIN last.results : last.results[j].file # files[i].file

\* C10 as claimed: no caller operation removes an item that is processing,
\* success or error.
C10_OnlyPendingLeaves ==
    [][files' # files =>
           \A f \in FileIds :
               StatusIn(files, f) \in {"processing", "success", "error"} =>
                   StatusIn(files', f) # "absent"]_vars

\* C10 amended: no caller operation removes a processing item; per-item Remove
\* removes one pending item; a success or error item leaves only through
\* Clear All, which empties the collection and is available only while some
\* item is pending and none is processing.
C10_ProcessingNeverLeaves ==
    [][files' # files => \A f \in FileIds :
           /\ StatusIn(files, f) = "processing" => StatusIn(files', f) # "absent"
           /\ (StatusIn(files, f) \in Terminal /\ StatusIn(files', f) = "absent") =>
                  /\ files' = <<>>
                  /\ ~hasProcessing
                  /\ \E i \in DOMAIN files : files[i].status = "pending"]_vars

C10_Witness ==
    /\ files = <<>>
    /\ \E f \in FileIds : outcome[f] = "ok"
    /\ \E f \in FileIds : outcome[f] = "analyze"

\* C11: a validateAndAddFiles call appends one pending item per file of an
\* allowed media type, in submission order, after the existing items, which
\* it leaves as they are; files of any other type are not added and do not
\* keep the valid ones out.
AllowedMediaTypes == {"application/pdf", "image/jpeg", "image/png", "image/webp"}

C11_SubmitAcceptsValid ==
    [][\A types \in SubmitTypes :
           LoggedSubmit(types) =>
               LET old == Len(files)
                   valid == {i \in DOMAIN types : types[i] \in AllowedMediaTypes}
               IN /\ Len(files') = old + Cardinality(valid)
                  /\ SubSeq(files', 1, old) = files
                  /\ \A i \in (old + 1)..Len(files') :
                         /\ files'[i].status = "pending"
                         /\ StatusIn(files, files'[i].file) = "absent"
                         /\ \A j \in (old + 1)..(i - 1) : files'[j].file < files'[i].file]_vars

C11_Witness ==
    /\ Len(lastSubmit) = 2
    /\ lastSubmit[1] = "text/plain" /\ lastSubmit[2] = "image/png"
    /\ Len(files) = 3
    /\ files[1].status = "success" /\ files[2].status = "processing"
    /\ files[3].status = "pending"

\* C12: after a validateAndAddFiles call that held a file of a disallowed
\* media type an error is shown, also when the call held valid files.
C12_RejectionSurfaced ==
    (\E i \in DOMAIN lastSubmit : lastSubmit[i] \notin AllowedMediaTypes) =>
        globalError # NoGlobalError

\* C13: a success item has a Document, an error item has a non-empty reason
\* and no Document, a pending or processing item has neither; the item of a
\* failed dispatch never shows a Document.
C13_FieldsMatchStatus ==
    \A i \in DOMAIN files :
        LET f == files[i] IN
        /\ f.status = "success" => f.contract # NoContract
        /\ f.status = "error" => (f.error # NoError /\ f.contract = NoContract)
        /\ f.status \in {"pending", "processing"} =>
               (f.error = NoError /\ f.contract = NoContract)
        /\ outcome[f.file] \in {"convert", "analyze", "save"} => f.contract = NoContract

C13_Witness ==
    /\ \E i \in DOMAIN files : files[i].status = "success"
    /\ \E i \in DOMAIN files : files[i].status = "error" /\ outcome[files[i].file] = "save"
    /\ \E i \in DOMAIN files : files[i].status = "processing"

\* C17: Documents of distinct successful dispatches have distinct
\* identifiers, so no dispatch's write lands on another Document's row.
C17_DistinctDocumentIds ==
    \A i, j \in DOMAIN files :
        (i # j /\ files[i].status = "success" /\ files[j].status = "success") =>
            files[i].contract # files[j].contract

\* C14: when the full write hits the quota and the light retry goes through,
\* saveContract returns the Document it was given, bytes included, and a
\* following getContractById returns that Document with fileData absent and
\* every other field as given.
C14_LightCopyStored ==
    (ret.op = "saveContract" /\ ret.w = "light" /\ ~ret.threw /\ Blob("contracts") = "table") =>
        LET given == ret.given[1]
            got == GetContractById(given.id)
        IN /\ ret.returned = <<given>>
           /\ ~got.threw /\ got.kind = "doc"
           /\ got.rows[1].id = given.id
           /\ got.rows[1].userId = given.userId
           /\ got.rows[1].uploadDate = given.uploadDate
           /\ got.rows[1].fileData = FALSE

C14_Witness ==
    /\ ret.op = "saveContract" /\ ret.w = "light" /\ ~ret.threw
    /\ ret.given[1].fileData
    /\ ret.returned[1].fileData
    /\ Len(contracts) = 2
    /\ contracts[1].id = ret.given[1].id /\ ~contracts[1].fileData
    /\ contracts[2].fileData

\* C15: saveContract makes at most two write attempts: one when the full
\* write goes through, a second one with the bytes cleared when the first hits
\* the quota; when that one fails too the call throws and the table is as it was.
C15_AtMostOneRetry ==
    [][\A contract \in Contracts : \A w \in WriteOutcomes :
           CallSaveContract(contract, w) =>
               /\ ret'.attempts \in {1, 2}
               /\ (Blob("contracts") = "table" /\ w = "full") =>
                      (ret'.attempts = 1 /\ ~ret'.threw)
               /\ (Blob("contracts") = "table" /\ w = "light") =>
                      /\ ret'.attempts = 2 /\ ~ret'.threw
                      /\ \E i \in DOMAIN contracts' :
                             contracts'[i] = [contract EXCEPT !.fileData = FALSE]
               /\ (Blob("contracts") = "table" /\ w = "quota") =>
                      (ret'.attempts = 2 /\ ret'.threw /\ contracts' = contracts)]_vars

C15_Witness ==
    /\ ret.op = "saveContract" /\ ret.w = "quota" /\ ret.threw /\ ret.attempts = 2
    /\ Len(contracts) = 2
    /\ \E i \in DOMAIN contracts :
           /\ contracts[i].id = ret.given[1].id
           /\ contracts[i].uploadDate # ret.given[1].uploadDate

\* C16: the documents table never holds two rows with one id: writing a
\* Document whose id is present replaces that row where it is and changes no
\* other row, writing a new id appends exactly one row.
NoDuplicateIds(rows) ==
    \A i, j \in DOMAIN rows : rows[i].id = rows[j].id => i = j

C16_UpsertById ==
    [][/\ NoDuplicateIds(contracts')
       /\ \A contract \in Contracts : \A w \in WriteOutcomes :
              (CallSaveContract(contract, w) /\ ~ret'.threw) =>
                  LET stored == IF w = "full" THEN contract
                                ELSE [contract EXCEPT !.fileData = FALSE]
                      at == {i \in DOMAIN contracts : contracts[i].id = contract.id}
                  IN IF at = {}
                     THEN contracts' = Append(contracts, stored)
                     ELSE /\ Len(contracts') = Len(contracts)
                          /\ \A i \in DOMAIN contracts :
                                 contracts'[i] = IF i \in at THEN stored ELSE contracts[i]]_vars

C16_Witness ==
    /\ Len(contracts) = 2
    /\ ret.op = "saveContract" /\ ~ret.threw /\ ret.w = "full"
    /\ contracts[1] = ret.given[1]
    /\ contracts[2].id # contracts[1].id

\* C18: whatever saveRecentAnalysis and clearRecentAnalyses calls were made,
\* the recent-analysis cache holds at most 10 entries and no id twice.
C18_CacheBounded ==
    /\ Len(recent) <= RecentLimit
    /\ \A i, j \in DOMAIN recent : recent[i].id = recent[j].id => i = j

C18_Witness ==
    /\ nextEntry > RecentLimit
    /\ Len(recent) = RecentLimit
    /\ ret.op = "saveRecentAnalysis" /\ ret.w = "full"
    /\ ret.given[1].name = 1
    /\ recent[1] = ret.given[1]

\* C19: the cache is ordered by recency of insertion. N first writes that
\* went through leave the last 10 of them, newest first; a write of an id that
\* is present puts the entry in front with its new content, leaves the others
\* in their order and the count as it was; a write of an id that is not
\* present pushes the oldest entry out of a full cache.
Others(rows, id) == SelectSeq(rows, LAMBDA item : item.id # id)

C19_OrderedByRecency ==
    [][/\ irregular' = 0 =>
              recent' = [i \in 1..Min(nextEntry', RecentLimit) |->
                            RecentAnalysis(nextEntry' - i + 1, 0)]
       /\ \A id \in 1..MaxEntries : \A version \in {0, 1} :
              CallSaveRecentAnalysis(RecentAnalysis(id, version), TRUE) =>
                  IF \E i \in DOMAIN recent : recent[i].id = id
                  THEN /\ recent'[1] = RecentAnalysis(id, version)
                       /\ Len(recent') = Len(recent)
                       /\ Tail(recent') = Others(recent, id)
                  ELSE /\ recent'[1] = RecentAnalysis(id, version)
                       /\ Tail(recent') = SubSeq(recent, 1, Min(Len(recent), RecentLimit - 1))]_vars

C19_Witness ==
    /\ nextEntry = MaxEntries
    /\ Len(recent) = RecentLimit
    /\ ret.op = "saveRecentAnalysis" /\ ret.w = "full"
    /\ recent[1] = RecentAnalysis(MaxEntries - 3, 1)
    /\ recent[2].id = MaxEntries
    /\ recent[RecentLimit].id = MaxEntries - RecentLimit + 1
    /\ irregular = 1

\* C20: a read of the store on a blob that is corrupted or does not parse
\* returns its empty result ([] for getUsers, getContracts and
\* getRecentAnalyses, null for getCurrentUser, undefined for getContractById)
\* and does not raise; getContracts for a user without documents returns [].
EmptyResult(op) ==
    CASE op \in {"getUsers", "getContracts", "getRecentAnalyses"} -> Returned("array", <<>>)
      [] op = "getCurrentUser" -> Returned("null", <<>>)
      [] OTHER -> Returned("undefined", <<>>)

C20_ReadsTolerateCorruption ==
    [][\A op \in ReadOps : \A arg \in ArgsOf(op) :
           CallRead(op, arg) =>
               /\ ~ret'.threw
               /\ Blob(KeyOf(op)) # "table" => ret'.returned = <<EmptyResult(op)>>
               /\ (op = "getContracts" /\ \A i \in DOMAIN contracts : contracts[i].userId # arg)
                      => ret'.returned = <<EmptyResult(op)>>]_vars

\* The part of C20 the code keeps: blobs that do not parse.
C20_UnparsableReadsEmpty ==
    [][\A op \in ReadOps : \A arg \in ArgsOf(op) :
           CallRead(op, arg) =>
               /\ ~ret'.threw
               /\ Blob(KeyOf(op)) = "unparsable" => ret'.returned = <<EmptyResult(op)>>
               /\ (op \in {"getContracts", "getContractById"} /\ Blob(KeyOf(op)) = "misshapen")
                      => ret'.returned = <<EmptyResult(op)>>
               /\ (op = "getContracts" /\ \A i \in DOMAIN contracts : contracts[i].userId # arg)
                      => ret'.returned = <<EmptyResult(op)>>]_vars

\* C21: getContracts(userId) returns the rows of the documents table whose
\* userId is the one asked for, each of them once and no other row, latest
\* uploadDate first, and leaves the table as it is.
C21_ContractsOfUserByDate ==
    [][\A userId \in UserIds :
           (CallRead("getContracts", userId) /\ Blob("contracts") = "table") =>
               LET got == ret'.returned[1]
                   own == {j \in DOMAIN contracts : contracts[j].userId = userId}
               IN /\ ~got.threw /\ got.kind = "array"
                  /\ \A i \in DOMAIN got.rows : got.rows[i].userId = userId
                  /\ \A j \in own : \E i \in DOMAIN got.rows : got.rows[i] = contracts[j]
                  /\ \A i \in DOMAIN got.rows : \E j \in own : got.rows[i] = contracts[j]
                  /\ Len(got.rows) = Cardinality(own)
                  /\ \A i, j \in DOMAIN got.rows :
                         i < j => got.rows[i].uploadDate >= got.rows[j].uploadDate
                  /\ contracts' = contracts]_vars

C21_Witness ==
    /\ ret.op = "getContracts"
    /\ Len(ret.returned[1].rows) = 2
    /\ ret.returned[1].rows[1].uploadDate > ret.returned[1].rows[2].uploadDate
    /\ Len(contracts) = 2
    /\ contracts[1] = ret.returned[1].rows[2]
    /\ contracts[2] = ret.returned[1].rows[1]

\* C22: getContractById(id) returns the row of the documents table with that
\* id when there is one, and undefined when there is none or the key is
\* missing; it does not raise and never returns a row with another id.
C22_ContractByIdOrUndefined ==
    [][\A id \in Ids :
           CallRead("getContractById", id) =>
               LET got == ret'.returned[1] IN
               /\ ~got.threw
               /\ contracts' = contracts
               /\ IF Blob("contracts") = "table" /\ \E j \in DOMAIN contracts : contracts[j].id = id
                  THEN /\ got.kind = "doc"
                       /\ got.rows[1].id = id
                       /\ \E j \in DOMAIN contracts : contracts[j] = got.rows[1]
                  ELSE got = Returned("undefined", <<>>)]_vars

C22_Witness ==
    /\ ret.op = "getContractById"
    /\ ret.returned[1].kind = "doc"
    /\ Len(contracts) = 2
    /\ contracts[2] = ret.returned[1].rows[1]
    /\ ret.given = <<contracts[2].id>>

\* C23: the conversation history of a clause only grows at its end: every
\* completed handleAsk leaves the history it found plus one triple, its own,
\* also when another handleAsk on the clause was waiting at the same time.
C23_HistoryAppendOnly ==
    [][\A k \in 1..MaxAsks : \A result \in Answers :
           Answered(k, result) =>
               clause' = Append(clause, NewHistoryItem(asking[k].currentQuestion, result,
                                                       clock + 1))]_vars

\* What C23 leaves when the calls do not overlap: a handleAsk that started on
\* the history as it is now appends to it.
C23_AppendsWhenAlone ==
    [][\A k \in 1..MaxAsks : \A result \in Answers :
           (Answered(k, result) /\ asking[k].clause = clause) =>
               clause' = Append(clause, NewHistoryItem(asking[k].currentQuestion, result,
                                                       clock + 1))]_vars

\* C24: the results of a batch reach the collection in one step, after the
\* last dispatch of the batch has settled: the items of one batch, in flight
\* or finished, are never shown some processing and some success or error.
BatchInFlight(inv) == {disp[k].fileState.file : k \in {j \in DOMAIN disp : disp[j].inv = inv}}
BatchFinished == {last.results[j].file : j \in DOMAIN last.results}
NoMix(batch) ==
    ~ \E f, g \in batch : StatusIn(files, f) = "processing" /\ StatusIn(files, g) \in Terminal

C24_MergedInOneStep ==
    /\ \A k \in DOMAIN disp : NoMix(BatchInFlight(disp[k].inv))
    /\ NoMix(BatchFinished)

C24_Witness ==
    /\ \E k, j \in DOMAIN disp :
           /\ k # j /\ disp[k].inv = disp[j].inv
           /\ disp[k].pc = "settled" /\ disp[k].fileState.status = "success"
           /\ disp[j].pc = "saving"
    /\ \E i \in DOMAIN files : files[i].status = "error"

\* C25: a handleAnalyzeAll call starts one processFile per item that is
\* pending when it is called and none for any other item, and the items it
\* marks processing are the items it dispatches.
C25_OneDispatchPerPending ==
    [][AnalyzeAll =>
           LET started == SubSeq(disp', Len(disp) + 1, Len(disp'))
               dispatched == {started[k].fileState.file : k \in DOMAIN started}
               pending == {files[i].file : i \in {j \in DOMAIN files : files[j].status = "pending"}}
               marked == {f \in FileIds : /\ StatusIn(files, f) # "processing"
                                          /\ StatusIn(files', f) = "processing"}
           IN /\ SubSeq(disp', 1, Len(disp)) = disp
              /\ Len(started) = Cardinality(pending)
              /\ dispatched = pending
              /\ marked = dispatched
              /\ \A k \in DOMAIN started : started[k].pc = "converting"]_vars

C25_Witness ==
    /\ Len(disp) = 2
    /\ \A k \in DOMAIN disp : disp[k].pc = "converting" /\ disp[k].len = 3
    /\ Len(files) = 3
    /\ files[1].status \in Terminal
    /\ files[2].status = "processing" /\ files[3].status = "processing"

\* C26: what the user submits or removes while a batch is in flight leaves
\* the batch alone. Such a step changes no dispatch and no processing item;
\* the merge leaves every pending item where and as it is, dispatched by no
\* one, and gives every processing item the result of its own dispatch.
Merging == Len(disp') < Len(disp)

C26_BystandersUndisturbed ==
    [][/\ (hasProcessing /\ disp' = disp /\ files' # files) =>
              /\ SelectSeq(files', LAMBDA f : f.status = "processing")
                     = SelectSeq(files, LAMBDA f : f.status = "processing")
              /\ \A f \in FileIds : StatusIn(files', f) \in Terminal => StatusIn(files, f) \in Terminal
       /\ Merging =>
              /\ Len(files') = Len(files)
              /\ \A i \in DOMAIN files :
                     /\ files[i].status # "processing" => files'[i] = files[i]
                     /\ files[i].status = "pending" =>
                            \A k \in DOMAIN disp : disp[k].fileState.file # files[i].file
                     /\ files[i].status = "processing" =>
                            /\ files'[i].file = files[i].file
                            /\ files'[i].status = IF OwnStepsOk(files[i].file)'
                                                  THEN "success" ELSE "error"
                            /\ \E j \in DOMAIN last'.results : last'.results[j] = files'[i]]_vars

C26_Witness ==
    /\ Len(files) = 2
    /\ files[1].status = "processing" /\ files[1].file = 1
    /\ files[2].status = "pending" /\ files[2].file = 3
    /\ Len(disp) = 1 /\ disp[1].len = 1 /\ disp[1].pc = "saving"

\* C27: no operation of the user takes a processing item out of the
\* collection: a step that shortens the collection either removes one pending
\* item or empties a collection with nothing processing, so the merge of a
\* batch finds every item the batch dispatched.
C27_InFlightItemsStay ==
    [][/\ Len(files') < Len(files) =>
              \/ /\ files' = <<>>
                 /\ ~hasProcessing
              \/ /\ Len(files') = Len(files) - 1
                 /\ \E index \in DOMAIN files :
                        /\ files[index].status = "pending"
                        /\ files' = [i \in 1..(Len(files) - 1) |->
                                        IF i < index THEN files[i] ELSE files[i + 1]]
       /\ \A k \in DOMAIN disp : Present(disp[k].fileState.file)
       /\ Merging =>
              \A j \in DOMAIN last'.results :
                  /\ FindIndex(files, last'.results[j].file) # NotFound
                  /\ files[FindIndex(files, last'.results[j].file)].status = "processing"
                  /\ files'[FindIndex(files, last'.results[j].file)] = last'.results[j]]_vars

C27_Witness ==
    /\ Len(last.results) = 2 /\ last.len = 2
    /\ Len(files) = 2
    /\ files[1] = last.results[1] /\ files[2] = last.results[2]
    /\ nextFile = 3

\* C28: a saveContract call on a documents table that cannot be read throws
\* after its first attempt, without the light retry, and leaves the table and
\* the cache as they are; processFile turns the failure into the item's error
\* status, with the reason and without a Document.
C28_CorruptWriteIsError ==
    [][("contracts" \in corrupt /\ outcome' # outcome) =>
           \A k \in DOMAIN disp :
               LET fileState == disp[k].fileState
                   save == SaveContract(contracts, Blob("contracts"),
                                        [id |-> disp[k].newContract, fileData |-> TRUE], "full")
               IN (disp[k].pc = "saving" /\ outcome'[fileState.file] # outcome[fileState.file]) =>
                      /\ save.threw /\ save.attempts = 1 /\ save.rows = contracts
                      /\ contracts' = contracts /\ recent' = recent
                      /\ outcome'[fileState.file] = "save"
                      /\ IF Merging
                         THEN \E i \in DOMAIN files' : files'[i] = ErrorResult(fileState)
                         ELSE disp'[k].fileState = ErrorResult(fileState)]_vars

C28_Witness ==
    /\ "contracts" \in corrupt
    /\ Len(files) = 2
    /\ files[1].status = "success" /\ outcome[files[1].file] = "ok"
    /\ files[2].status = "error" /\ outcome[files[2].file] = "save"
    /\ files[2].error = ErrorReason /\ files[2].contract = NoContract
    /\ Len(last.results) = 1 /\ last.results[1] = files[2]

\* C29: the documents table and the recent-analysis cache do not touch each
\* other: a saveContract call, a rewrite of a stored Document included, leaves
\* the cache as it is; saveRecentAnalysis and clearRecentAnalyses leave the
\* documents table as it is; after clearRecentAnalyses the cache reads empty,
\* whatever was under its key.
C29_TablesIndependent ==
    [][/\ (\E contract \in Contracts : \E w \in WriteOutcomes : CallSaveContract(contract, w)) =>
              /\ recent' = recent
              /\ Blob("recent")' = Blob("recent")
       /\ (DoSaveFirstEntry \/ ClearRecentAnalyses) =>
              /\ contracts' = contracts
              /\ Blob("contracts")' = Blob("contracts")
       /\ ClearRecentAnalyses => GetRecentAnalyses' = Returned("array", <<>>)]_vars

C29_Witness ==
    /\ ret.op = "saveContract" /\ ~ret.threw
    /\ irregular = 1
    /\ recent = <<RecentAnalysis(1, 0)>>
    /\ Len(contracts) = 2
    /\ contracts[1].id = 1 /\ contracts[1] = ret.given[1]

\* C30: the Document writes of one batch do not lose each other: once the
\* batch is merged, the documents table holds one row for each of its
\* dispatches whose saveContract went through, as many rows as there were
\* such dispatches.
SavedByLastBatch == {j \in DOMAIN last.results : OwnStepsOk(last.results[j].file)}

C30_NoLostDocumentWrite ==
    (last.results # <<>> /\ Blob("contracts") = "table") =>
        Cardinality({i \in DOMAIN contracts :
                        \E j \in SavedByLastBatch : contracts[i].id = last.results[j].contract})
            = Cardinality(SavedByLastBatch)

\* What C30 leaves: every Document of the batch that was written has a row
\* under its id, whatever the order in which the dispatches ran; two Documents
\* that were given one id share that row.
C30_RowUnderEverySavedId ==
    (last.results # <<>> /\ Blob("contracts") = "table") =>
        \A j \in SavedByLastBatch :
            \E i \in DOMAIN contracts : contracts[i].id = last.results[j].contract

\* C31: when every dispatch of an AnalyzeAll invocation settles, every item the
\* invocation marked processing ends in success or error, also when two items
\* wrap one File object. The merge runs in the step of the invocation's last
\* settle, so an item still processing must have a dispatch of a batch in flight
\* that carries its file.
C31_NoneLeftProcessing ==
    \A i \in DOMAIN files :
        files[i].status = "processing" =>
            \E k \in DOMAIN disp : disp[k].fileState.file = files[i].file

\* The step in which dispatch k returns the error result: processFile's catch
\* ran for the FileReader, the analysis call or saveContract.
EndsInError(k) ==
    /\ k \in DOMAIN disp
    /\ outcome'[disp[k].fileState.file] # outcome[disp[k].fileState.file]
    /\ outcome'[disp[k].fileState.file] \in {"convert", "analyze", "save"}

\* C32: when a dispatch ends in error, neither the documents table nor the
\* recent-analysis cache holds a row with the identifier that dispatch
\* generated.
C32_ErrorLeavesNoRowWithItsId ==
    [][\A k \in 1..MaxFiles :
           (EndsInError(k) /\ disp[k].newContract # NoContract) =>
               /\ \A i \in DOMAIN contracts' : contracts'[i].id # disp[k].newContract
               /\ \A i \in DOMAIN recent' : recent'[i].id # disp[k].newContract]_vars

\* What holds of C32: the dispatch that ends in error wrote nothing, the store
\* is after its last step what it was before it.
C32_ErrorStepWritesNothing ==
    [][\A k \in 1..MaxFiles :
           EndsInError(k) =>
               /\ contracts' = contracts /\ recent' = recent
               /\ Blob("contracts")' = Blob("contracts")
               /\ Blob("recent")' = Blob("recent")]_vars

\* The step in which dispatch k's saveRecentAnalysis call stores its entry.
CachesEntry(k) ==
    /\ At(k, "saving")
    /\ outcome'[disp[k].fileState.file] # outcome[disp[k].fileState.file]
    /\ outcome'[disp[k].fileState.file] = "ok"

\* C33: within a dispatch the Document write comes before the cache write and
\* a failed Document write skips the cache write: the entry a dispatch stores
\* heads the cache under the dispatch's identifier and the documents table
\* holds a row with that identifier at that moment; the cache changes in no
\* other step, and not in the step of a dispatch that ends in error.
C33_CachedOnlyAfterStored ==
    [][/\ \A k \in 1..MaxFiles :
              CachesEntry(k) =>
                  /\ recent' # <<>> /\ recent'[1].id = disp[k].newContract
                  /\ Blob("contracts")' = "table"
                  /\ \E i \in DOMAIN contracts' : contracts'[i].id = disp[k].newContract
       /\ recent' # recent => \E k \in 1..MaxFiles : CachesEntry(k)
       /\ \A k \in 1..MaxFiles : EndsInError(k) => recent' = recent]_vars

C33_Witness ==
    /\ Len(files) = 2
    /\ files[1].status = "success" /\ outcome[files[1].file] = "ok"
    /\ files[2].status = "error" /\ outcome[files[2].file] = "save"
    /\ "contracts" \notin corrupt
    /\ recent = <<[id |-> files[1].contract, name |-> files[1].file]>>
    /\ Len(contracts) = 1 /\ contracts[1].id = files[1].contract

====
